---- MODULE Spec2Model ----
(***************************************************************************)
(* Files-manager API: Basic / X-Token authentication, session issue and    *)
(* revoke over the Redis cache, user registration over the user store.     *)
(*                                                                         *)
(* Strings are sequences of character codes.  Every action is one span of  *)
(* a handler between two awaits on a collaborator (cache, user store): the *)
(* requests of different clients interleave at exactly those points.       *)
(***************************************************************************)
EXTENDS Integers, Sequences, FiniteSets, TLC

(* ------------------------------ bounds -------------------------------- *)
\* request slots served concurrently
MaxReqs == 2
\* tokens uuidv4 can still hand out
MaxTokens == 2
\* documents the user store will still accept
MaxUsers == 2
\* clock advances observed
MaxTicks == 2
\* documents that leave the users collection by another hand
MaxRemovals == 1

\* worker processes consuming the queues
MaxWorkers == 2
\* jobs the queues will still accept
MaxJobs == 2
\* the most attempts a producer outside this repository asks for
MaxAttempts == 2

Reqs == 1..MaxReqs
Workers == 1..MaxWorkers
Tokens == 1..MaxTokens

(* ------------------------------ strings ------------------------------- *)
COLON == 58
SPACE == 32
EQUALS == 61
\* "Basic"
BASIC == <<66, 97, 115, 105, 99>>
\* "Bearer"
BEARER == <<66, 101, 97, 114, 101, 114>>
\* the addresses people register ("a", "b"), the passwords they register with
\* ("p") and the passwords clients type into a Basic header ("p", "q")
Emails == {<<97>>, <<98>>}
Passwords == {<<112>>}
TypedPasswords == {<<112>>, <<113>>}

\* String.prototype.indexOf(ch): the first position (from 0) of ch, or -1
IndexOf(s, ch) ==
  IF \E i \in 1..Len(s) : s[i] = ch
  THEN (CHOOSE i \in 1..Len(s) : s[i] = ch /\ \A j \in 1..(i - 1) : s[j] # ch) - 1
  ELSE -1

\* String.prototype.substring(from, to): negative bounds clamp to 0, bounds
\* beyond the end clamp to the length, and the two are swapped when from > to
Clamp(n, len) == IF n < 0 THEN 0 ELSE IF n > len THEN len ELSE n
Substring(s, from, to) ==
  LET a == Clamp(from, Len(s))
      b == Clamp(to, Len(s))
      lo == IF a <= b THEN a ELSE b
      hi == IF a <= b THEN b ELSE a
  IN SubSeq(s, lo + 1, hi)

\* String.prototype.split(' '): the parts between single spaces
RECURSIVE Split(_)
Split(s) ==
  LET i == IndexOf(s, SPACE)
  IN IF i = -1 THEN <<s>>
     ELSE <<SubSeq(s, 1, i)>> \o Split(SubSeq(s, i + 2, Len(s)))

\* the base64 alphabet: A-Z a-z 0-9 + /
B64Char(v) ==
  IF v < 26 THEN 65 + v
  ELSE IF v < 52 THEN 71 + v
  ELSE IF v < 62 THEN v - 4
  ELSE IF v = 62 THEN 43 ELSE 47

\* the value of a base64 character, -1 for a character outside the alphabet
\* (Node also reads the URL-safe '-' and '_')
B64Val(c) ==
  IF c >= 65 /\ c <= 90 THEN c - 65
  ELSE IF c >= 97 /\ c <= 122 THEN c - 71
  ELSE IF c >= 48 /\ c <= 57 THEN c + 4
  ELSE IF c = 43 \/ c = 45 THEN 62
  ELSE IF c = 47 \/ c = 95 THEN 63
  ELSE -1

\* what a client does to build the payload of a Basic header
RECURSIVE Base64Encode(_)
Base64Encode(b) ==
  IF Len(b) = 0 THEN <<>>
  ELSE IF Len(b) = 1
  THEN <<B64Char(b[1] \div 4), B64Char((b[1] % 4) * 16), EQUALS, EQUALS>>
  ELSE IF Len(b) = 2
  THEN <<B64Char(b[1] \div 4), B64Char((b[1] % 4) * 16 + b[2] \div 16),
         B64Char((b[2] % 16) * 4), EQUALS>>
  ELSE <<B64Char(b[1] \div 4), B64Char((b[1] % 4) * 16 + b[2] \div 16),
         B64Char((b[2] % 16) * 4 + b[3] \div 64), B64Char(b[3] % 64)>>
       \o Base64Encode(SubSeq(b, 4, Len(b)))

\* the base64 digits Buffer.from(s, 'base64') reads: it stops at the first
\* '=' and skips every character outside the alphabet
RECURSIVE B64Digits(_)
B64Digits(s) ==
  IF Len(s) = 0 \/ s[1] = EQUALS THEN <<>>
  ELSE IF B64Val(s[1]) = -1 THEN B64Digits(Tail(s))
  ELSE <<B64Val(s[1])>> \o B64Digits(Tail(s))

\* four digits give three bytes, three give two, two give one, one gives none
RECURSIVE B64Bytes(_)
B64Bytes(d) ==
  IF Len(d) < 2 THEN <<>>
  ELSE IF Len(d) = 2 THEN <<d[1] * 4 + d[2] \div 16>>
  ELSE IF Len(d) = 3
  THEN <<d[1] * 4 + d[2] \div 16, (d[2] % 16) * 16 + d[3] \div 4>>
  ELSE <<d[1] * 4 + d[2] \div 16, (d[2] % 16) * 16 + d[3] \div 4,
         (d[3] % 4) * 64 + d[4]>>
       \o B64Bytes(SubSeq(d, 5, Len(d)))

\* Buffer.prototype.toString(): a byte that is not ASCII decodes to U+FFFD
Utf8ToString(bytes) ==
  [i \in 1..Len(bytes) |-> IF bytes[i] < 128 THEN bytes[i] ELSE 65533]

\* Buffer.from(s, 'base64').toString()
Base64Decode(s) == Utf8ToString(B64Bytes(B64Digits(s)))

\* a store that keeps the password as it was typed
PlainText(s) == s

\* sha1(password): one-way, never the plaintext, equal on equal inputs
sha1(s) == <<0>> \o s

\* ObjectId.prototype.toString() and new ObjectId(string)
IdToString(id) == <<"oid", id>>
ObjectId(str) == str[2]

(* ------------------------------ the state ----------------------------- *)
VARIABLES
  redisModule, \* which of the repository's two RedisClient modules is utils/redis
  users,       \* the users collection: documents {_id, email, password}
  nextId,      \* the _id the store gives the next inserted document
  cache,       \* Redis: key -> [value, expireAt]
  now,         \* the clock, in seconds
  usedTokens,  \* the values uuidv4() has returned
  reqs,        \* the requests being served, one per slot
  userQueue,   \* the jobs accepted by the 'email sending' queue
  fileQueue,   \* the jobs accepted by the 'thumbnail generation' queue
  runs,        \* worker, queue -> the handler invocation in progress
  outbox,      \* the calls of Mailer.sendMail and what became of each
  issued,      \* history: token -> the user id and the time of its issue
  revoked      \* history: the tokens whose DEL has completed

vars == <<redisModule, users, nextId, cache, now, usedTokens, reqs, userQueue,
          fileQueue, runs, outbox, issued, revoked>>

NoUser == [_id |-> 0, email |-> <<>>, password |-> <<>>]
NoBody == [email |-> <<>>, password |-> <<>>]
NotIssued == [uid |-> 0, at |-> 0]

\* a slot with no request in it
IdleReq ==
  [route |-> "none", pc |-> "idle", authorization |-> <<>>, xtoken |-> 0,
   body |-> NoBody, user |-> NoUser, userId |-> <<>>, status |-> 0,
   error |-> "", token |-> 0, id |-> 0, sentBy |-> "", sends |-> 0,
   nexts |-> 0, cacheCalls |-> 0, dbCalls |-> 0, deleted |-> 0,
   fault |-> "none", redisConnected |-> FALSE, dbConnected |-> FALSE,
   redis |-> FALSE, db |-> FALSE]

(* ---------------------------- the user store -------------------------- *)
MinId(S) == CHOOSE u \in S : \A v \in S : u._id <= v._id

\* collection.findOne({ email }): the first stored document with that email
FindOneByEmail(store, email) ==
  LET found == {u \in store : u.email = email}
  IN IF found = {} THEN NoUser ELSE MinId(found)

\* a lookup whose filter matches every document
FindOneByIdAny(store, id) == IF store = {} THEN NoUser ELSE MinId(store)

\* collection.findOne({ _id }): the stored document with that _id
FindOneById(store, id) ==
  LET found == {u \in store : u._id = id}
  IN IF found = {} THEN NoUser ELSE MinId(found)

(* ------------------------------ the cache ----------------------------- *)
\* two days instead of one
SessionTtlTwoDays == 2 * 24 * 60 * 60

\* 24 * 60 * 60, the expiration getConnect asks for
SessionTtl == 24 * 60 * 60
\* the clock is observed every half of that
TickStep == SessionTtl \div 2

\* a read under another prefix than the write's
XTokenKeyOtherPrefix(token) == <<"token_", token>>
\* a delete of the bare token, without the prefix
DisconnectKeyNoPrefix(token) == <<"", token>>

\* `auth_${token}`, as getConnect, getDisconnect and getUserFromXToken each
\* build it
ConnectKey(token) == <<"auth_", token>>
DisconnectKey(token) == <<"auth_", token>>
XTokenKey(token) == <<"auth_", token>>

\* the arguments getConnect passes after the key and the value
EX == [isNum |-> FALSE, num |-> 0, str |-> "EX"]
Num(n) == [isNum |-> TRUE, num |-> n, str |-> ""]

Put(c, key, value, expireAt) ==
  [k \in DOMAIN c \cup {key} |->
     IF k = key THEN [value |-> value, expireAt |-> expireAt] ELSE c[k]]

\* a delete that takes every key of the user's with it
RedisDelAll(c, key) == [k \in {} |-> c[k]]
\* a delete that drops the other keys when its own is not there
RedisDelOrFlush(c, key) ==
  IF key \in DOMAIN c THEN [k \in DOMAIN c \ {key} |-> c[k]]
  ELSE [k \in {} |-> c[k]]

\* DEL key: the entry is gone, and a key that is not there is no error
RedisDel(c, key) == [k \in DOMAIN c \ {key} |-> c[k]]

\* DEL's reply, which del() drops: the number of keys removed
DelReply(c, key) == IF key \in DOMAIN c THEN 1 ELSE 0

\* GET key: the value, or null (here <<>>) for a key absent or expired
RedisGet(c, key, t) ==
  IF key \in DOMAIN c /\ c[key].expireAt > t THEN c[key].value ELSE <<>>

\* set(key, value, duration) of the module that sends SETEX key duration value:
\* a fourth argument is dropped, a duration that is no integer is an error reply
SetexSet(c, key, value, a3, a4, t) ==
  IF a3.isNum /\ a3.num > 0
  THEN [ok |-> TRUE, cache |-> Put(c, key, value, t + a3.num)]
  ELSE [ok |-> FALSE, cache |-> c]

\* this.set = promisify(client.set) of the other module: the instance property
\* shadows the class method, the call is SET key value a3 a4
ShadowSet(c, key, value, a3, a4, t) ==
  IF a3 = EX /\ a4.isNum /\ a4.num > 0
  THEN [ok |-> TRUE, cache |-> Put(c, key, value, t + a4.num)]
  ELSE [ok |-> FALSE, cache |-> c]

RedisSet(module, c, key, value, a3, a4, t) ==
  IF module = "setex" THEN SetexSet(c, key, value, a3, a4, t)
  ELSE ShadowSet(c, key, value, a3, a4, t)


(* ----------------------------- the clients ---------------------------- *)
\* Authorization: Basic base64(email:password)
BasicHeader(email, password) ==
  BASIC \o <<SPACE>> \o Base64Encode(email \o <<COLON>> \o password)

\* the Authorization headers clients send: none, well-formed ones, another scheme
Authorizations ==
  {<<>>} \cup {BasicHeader(e, p) : e \in Emails, p \in TypedPasswords}
  \cup {BEARER \o <<SPACE>> \o Base64Encode(<<97, COLON, 112>>)}

(* ------------------------------ the queues ---------------------------- *)
\* new Queue('email sending'), new Queue('thumbnail generation')
QueueNames == {"email sending", "thumbnail generation"}

\* job.data: the fields a producer gives a job (<<>>: the field is absent)
JobData(fileId, userId) == [fileId |-> fileId, userId |-> userId]

\* userQueue.add({ userId }) names no option: the job gets one attempt
Attempts == 1

\* Queue.add(data, { attempts }): the job as the queue first holds it, with
\* the history of what happens to it
NewJob(data, attempts) ==
  [data |-> data, attempts |-> attempts, state |-> "waiting", attemptsMade |-> 0,
   deliveries |-> 0, dones |-> 0, lookups |-> 0, mails |-> 0, failedReason |-> "",
   resizes |-> 0, settled |-> 0, artifacts |-> {}]

\* no handler invocation in progress
IdleRun == [job |-> 0, pc |-> "idle"]

(* ---------------------------- the responses --------------------------- *)
Respond(q, by, status, error) ==
  [q EXCEPT !.pc = "done", !.status = status, !.error = error,
            !.sentBy = by, !.sends = @ + 1]

\* the 401 without its return: the middleware goes on to next()
RejectNoReturn(q) ==
  [q EXCEPT !.pc = "done", !.status = 401, !.error = "Unauthorized",
            !.sentBy = "middleware", !.sends = @ + 1, !.nexts = @ + 1]

\* a 401 whose body tells a header that could not be read from credentials
\* that did not match
RejectByCause(q) ==
  Respond(q, "middleware", 401,
          IF q.dbCalls = 0 /\ q.cacheCalls = 0 THEN "Bad header" ELSE "Unauthorized")

\* res.status(401).json({ error: 'Unauthorized' }); return;  of both middlewares
Reject(q) == Respond(q, "middleware", 401, "Unauthorized")

\* a rejection nobody catches: the middleware's promise rejects, no response
Escape(q, what) == [q EXCEPT !.pc = "unhandled", !.fault = what]

\* Some request has just been answered, or given up by its middleware.  A
\* response is an output of the server: the client takes it (Close) before the
\* server takes its next step, the two commute.
Answered == \E r \in Reqs : reqs[r].pc \in {"done", "unhandled"}


Init ==
  /\ redisModule \in {"setex", "shadow"}
  /\ users = {}
  /\ nextId = 1
  /\ cache = <<>>
  /\ now = 0
  /\ usedTokens = {}
  /\ reqs = [r \in Reqs |-> IdleReq]
  /\ userQueue = <<>>
  /\ fileQueue = <<>>
  /\ runs = [w \in Workers |-> [qn \in QueueNames |-> IdleRun]]
  /\ outbox = <<>>
  /\ issued = [t \in Tokens |-> NotIssued]
  /\ revoked = {}

(* --------------------------- utils/auth (db.js) ----------------------- *)
\* String.prototype.lastIndexOf(ch)
LastIndexOf(s, ch) ==
  IF \E i \in 1..Len(s) : s[i] = ch
  THEN (CHOOSE i \in 1..Len(s) : s[i] = ch /\ \A j \in (i + 1)..Len(s) : s[j] # ch) - 1
  ELSE -1

\* a parse that cuts the payload at its last ':' instead of its first
ParseAuthorizationLastColon(authorization) ==
  IF authorization = <<>> THEN [ok |-> FALSE, email |-> <<>>, password |-> <<>>]
  ELSE LET authorizationParts == Split(authorization)
       IN IF Len(authorizationParts) # 2 \/ authorizationParts[1] # BASIC
          THEN [ok |-> FALSE, email |-> <<>>, password |-> <<>>]
          ELSE LET token == Base64Decode(authorizationParts[2])
                   sepPos == LastIndexOf(token, COLON)
               IN [ok |-> TRUE,
                   email |-> Substring(token, 0, sepPos),
                   password |-> Substring(token, sepPos + 1, Len(token))]

\* getUserFromAuthorization up to its lookup: the email and the password read
\* off the header, or nothing when the header is missing or is not
\* 'Basic <payload>'
ParseAuthorization(authorization) ==
  IF authorization = <<>> THEN [ok |-> FALSE, email |-> <<>>, password |-> <<>>]
  ELSE LET authorizationParts == Split(authorization)
       IN IF Len(authorizationParts) # 2 \/ authorizationParts[1] # BASIC
          THEN [ok |-> FALSE, email |-> <<>>, password |-> <<>>]
          ELSE LET token == Base64Decode(authorizationParts[2])
                   sepPos == IndexOf(token, COLON)
               IN [ok |-> TRUE,
                   email |-> Substring(token, 0, sepPos),
                   password |-> Substring(token, sepPos + 1, Len(token))]

\* a check that lets any password of a stored user through
VerifyPasswordUnchecked(user, password) == user

\* getUserFromAuthorization after its lookup: the user, or null
VerifyPassword(user, password) ==
  IF user = NoUser \/ sha1(password) # user.password THEN NoUser ELSE user

(* ------------------------ GET /connect: basicAuthenticate ------------- *)
\* A request with this Authorization header arrives and basicAuthenticate runs:
\* 401 when no user comes back, else req.user is set and next() is called.
\* A rejected lookup is caught by nobody.
BasicAuthenticate(r, authorization, fail) ==
  /\ ~Answered
  /\ reqs[r].pc = "idle"
  /\ LET q == [IdleReq EXCEPT !.route = "connect", !.authorization = authorization]
         cred == ParseAuthorization(authorization)
         user == VerifyPassword(FindOneByEmail(users, cred.email), cred.password)
     IN reqs' = [reqs EXCEPT ![r] =
          IF ~cred.ok THEN Reject(q)
          ELSE IF fail THEN Escape([q EXCEPT !.dbCalls = 1], "db")
          ELSE IF user = NoUser THEN Reject([q EXCEPT !.dbCalls = 1])
          ELSE [q EXCEPT !.dbCalls = 1, !.user = user, !.nexts = @ + 1,
                         !.pc = "getConnect"]]
  /\ UNCHANGED <<redisModule, outbox, fileQueue, runs,
                 users, nextId, cache, now, usedTokens, userQueue,
                 issued, revoked>>

(* ------------------------ AuthController.getConnect ------------------- *)
\* a generator that repeats itself
uuidv4Repeating(used) == 1

\* uuidv4(): a value it has not returned before (the values are opaque, so
\* the first unused one stands for any of them)
uuidv4(used) == CHOOSE t \in Tokens \ used : \A x \in Tokens \ used : t <= x

\* token = uuidv4(); set auth_<token> to the user's id for 24 hours; 200 {token}.
\* Whatever the set throws is answered 500.
GetConnect(r, fail) ==
  /\ ~Answered
  /\ reqs[r].pc = "getConnect"
  /\ Tokens \ usedTokens # {}
  /\ usedTokens' = usedTokens \cup {uuidv4(usedTokens)}
  /\ LET token == uuidv4(usedTokens)
         q == [reqs[r] EXCEPT !.cacheCalls = @ + 1]
         id == IdToString(q.user._id)
         set == RedisSet(redisModule, cache, ConnectKey(token), id, EX,
                         Num(SessionTtl), now)
     IN IF fail
        THEN /\ reqs' = [reqs EXCEPT ![r] =
                  Respond([q EXCEPT !.fault = "cache"], "handler", 500,
                          "Internal server error")]
             /\ UNCHANGED <<cache, issued>>
        ELSE IF ~set.ok
        THEN /\ reqs' = [reqs EXCEPT ![r] =
                  Respond([q EXCEPT !.fault = "arguments"], "handler", 500,
                          "Internal server error")]
             /\ UNCHANGED <<cache, issued>>
        ELSE /\ cache' = set.cache
             /\ issued' = [issued EXCEPT ![token] = [uid |-> q.user._id, at |-> now]]
             /\ reqs' = [reqs EXCEPT ![r] =
                  Respond([q EXCEPT !.token = token], "handler", 200, "")]
  /\ UNCHANGED <<redisModule, outbox, fileQueue, runs,
                 users, nextId, now, userQueue, revoked>>

(* ---------------------- GET /disconnect: xTokenAuthenticate ----------- *)
\* A request with this X-Token header arrives (0: no header) and
\* getUserFromXToken runs to its cache read: 401 without the header or without
\* a user id under auth_<token>.
XTokenAuthenticate(r, xtoken, fail) ==
  /\ ~Answered
  /\ reqs[r].pc = "idle"
  /\ LET q == [IdleReq EXCEPT !.route = "disconnect", !.xtoken = xtoken]
         userId == RedisGet(cache, XTokenKey(xtoken), now)
     IN reqs' = [reqs EXCEPT ![r] =
          IF xtoken = 0 THEN Reject(q)
          ELSE IF fail THEN Escape([q EXCEPT !.cacheCalls = 1], "cache")
          ELSE IF userId = <<>> THEN Reject([q EXCEPT !.cacheCalls = 1])
          ELSE [q EXCEPT !.cacheCalls = 1, !.userId = userId, !.pc = "findUser"]]
  /\ UNCHANGED <<redisModule, outbox, fileQueue, runs,
                 users, nextId, cache, now, usedTokens, userQueue,
                 issued, revoked>>

\* getUserFromXToken's lookup of the user by the cached id, then the rest of
\* xTokenAuthenticate: 401 without a user, else req.user is set and next()
XTokenFindUser(r, fail) ==
  /\ ~Answered
  /\ reqs[r].pc = "findUser"
  /\ LET q == [reqs[r] EXCEPT !.dbCalls = @ + 1]
         user == FindOneById(users, ObjectId(q.userId))
     IN reqs' = [reqs EXCEPT ![r] =
          IF fail THEN Escape(q, "db")
          ELSE IF user = NoUser THEN Reject(q)
          ELSE [q EXCEPT !.user = user, !.nexts = @ + 1, !.pc = "getDisconnect"]]
  /\ UNCHANGED <<redisModule, outbox, fileQueue, runs,
                 users, nextId, cache, now, usedTokens, userQueue,
                 issued, revoked>>

(* ---------------------- AuthController.getDisconnect ------------------ *)
\* 401 without the header; else DEL auth_<token> and 204 with no body.
\* Whatever the del throws is answered 500.
GetDisconnect(r, fail) ==
  /\ ~Answered
  /\ reqs[r].pc = "getDisconnect"
  /\ LET q == reqs[r]
         token == q.xtoken
     IN IF token = 0
        THEN /\ reqs' = [reqs EXCEPT ![r] = Respond(q, "handler", 401, "Unauthorized")]
             /\ UNCHANGED <<cache, revoked>>
        ELSE IF fail
        THEN /\ reqs' = [reqs EXCEPT ![r] =
                  Respond([q EXCEPT !.cacheCalls = @ + 1, !.fault = "cache"],
                          "handler", 500, "Internal server error")]
             /\ UNCHANGED <<cache, revoked>>
        ELSE /\ cache' = RedisDel(cache, DisconnectKey(token))
             /\ revoked' = revoked \cup {token}
             /\ reqs' = [reqs EXCEPT ![r] =
                  Respond([q EXCEPT !.cacheCalls = @ + 1,
                                    !.deleted = DelReply(cache, DisconnectKey(token))],
                          "handler", 204, "")]
  /\ UNCHANGED <<redisModule, outbox, fileQueue, runs,
                 users, nextId, now, usedTokens, userQueue, issued>>

(* ------------------------ UsersController.postNew --------------------- *)
\* A POST /users with this body arrives (<<>>: the field is missing): 400
\* without an email, without a password, or when the email is stored already
PostNewFind(r, email, password, fail) ==
  /\ ~Answered
  /\ reqs[r].pc = "idle"
  /\ LET q == [IdleReq EXCEPT !.route = "users",
                              !.body = [email |-> email, password |-> password]]
         user == FindOneByEmail(users, email)
     IN reqs' = [reqs EXCEPT ![r] =
          IF email = <<>> THEN Respond(q, "handler", 400, "Missing email")
          ELSE IF password = <<>> THEN Respond(q, "handler", 400, "Missing password")
          ELSE IF fail
          THEN Respond([q EXCEPT !.dbCalls = 1, !.fault = "db"], "handler", 500,
                       "Internal server error")
          ELSE IF user # NoUser
          THEN Respond([q EXCEPT !.dbCalls = 1], "handler", 400, "Already exist")
          ELSE [q EXCEPT !.dbCalls = 1, !.pc = "insertOne"]]
  /\ UNCHANGED <<redisModule, outbox, fileQueue, runs,
                 users, nextId, cache, now, usedTokens, userQueue,
                 issued, revoked>>

\* a registration that answers 201 and adds no job
PostNewInsertNoJob(r, fail, accepted) ==
  /\ ~Answered
  /\ reqs[r].pc = "insertOne"
  /\ nextId <= MaxUsers
  /\ LET q == [reqs[r] EXCEPT !.dbCalls = @ + 1]
     IN IF fail
        THEN /\ reqs' = [reqs EXCEPT ![r] =
                  Respond([q EXCEPT !.fault = "db"], "handler", 500,
                          "Internal server error")]
             /\ UNCHANGED <<users, nextId>>
        ELSE /\ users' = users \cup {[_id |-> nextId, email |-> q.body.email,
                                      password |-> sha1(q.body.password)]}
             /\ nextId' = nextId + 1
             /\ reqs' = [reqs EXCEPT ![r] =
                  Respond([q EXCEPT !.id = nextId], "handler", 201, "")]
  /\ UNCHANGED <<redisModule, outbox, fileQueue, runs, userQueue,
                 cache, now, usedTokens, issued, revoked>>

\* insertOne({ email, password: sha1(password) }), userQueue.add({ userId })
\* without waiting for the queue's answer, 201 {email, id}
PostNewInsert(r, fail, accepted) ==
  /\ ~Answered
  /\ reqs[r].pc = "insertOne"
  /\ nextId <= MaxUsers
  /\ LET q == [reqs[r] EXCEPT !.dbCalls = @ + 1]
         userId == IdToString(nextId)
     IN IF fail
        THEN /\ reqs' = [reqs EXCEPT ![r] =
                  Respond([q EXCEPT !.fault = "db"], "handler", 500,
                          "Internal server error")]
             /\ UNCHANGED <<users, nextId, userQueue>>
        ELSE /\ users' = users \cup {[_id |-> nextId, email |-> q.body.email,
                                      password |-> sha1(q.body.password)]}
             /\ nextId' = nextId + 1
             /\ userQueue' = IF accepted THEN Append(userQueue, NewJob(JobData(<<>>, userId), Attempts))
                             ELSE userQueue
             /\ reqs' = [reqs EXCEPT ![r] =
                  Respond([q EXCEPT !.id = nextId], "handler", 201, "")]
  /\ UNCHANGED <<redisModule, outbox, fileQueue, runs,
                 cache, now, usedTokens, issued, revoked>>

(* ------------------------ AppController.getStatus --------------------- *)
\* GET /status while the Redis client and the Mongo client are connected or
\* not.  redisClient.ping is defined by neither RedisClient module: the call
\* throws a TypeError before dbClient.isAlive() is asked, and the catch answers
\* 500 {error: 'Internal Server Error'}.
GetStatus(r, redisConnected, dbConnected) ==
  /\ ~Answered
  /\ reqs[r].pc = "idle"
  /\ LET q == [IdleReq EXCEPT !.route = "status",
                              !.redisConnected = redisConnected,
                              !.dbConnected = dbConnected]
     IN reqs' = [reqs EXCEPT ![r] =
          Respond([q EXCEPT !.fault = "ping"], "handler", 500,
                  "Internal Server Error")]
  /\ UNCHANGED <<redisModule, outbox, fileQueue, runs,
                 users, nextId, cache, now, usedTokens, userQueue,
                 issued, revoked>>

(* ---------------------------- the environment ------------------------- *)
\* time passes; Redis drops the keys whose expiration has come
Tick ==
  /\ ~Answered
  /\ now < MaxTicks * TickStep
  /\ now' = now + TickStep
  /\ cache' = [k \in {x \in DOMAIN cache : cache[x].expireAt > now'} |-> cache[k]]
  /\ UNCHANGED <<redisModule, outbox, fileQueue, runs,
                 users, nextId, usedTokens, reqs, userQueue, issued,
                 revoked>>

\* a document leaves the users collection by some other hand than this API's
RemoveUser(u) ==
  /\ ~Answered
  /\ u \in users
  /\ (nextId - 1) - Cardinality(users) < MaxRemovals
  /\ users' = users \ {u}
  /\ UNCHANGED <<redisModule, outbox, fileQueue, runs,
                 nextId, cache, now, usedTokens, reqs, userQueue,
                 issued, revoked>>

\* the client has its answer, or gives up on a request nobody answers
Close(r) ==
  /\ reqs[r].pc \in {"done", "unhandled"}
  /\ reqs' = [reqs EXCEPT ![r] = IdleReq]
  /\ UNCHANGED <<redisModule, outbox, fileQueue, runs,
                 users, nextId, cache, now, usedTokens, userQueue,
                 issued, revoked>>

\* The queue's store is up here: userQueue.add is answered with an acceptance.
Next ==
  \/ \E r \in Reqs, a \in Authorizations, fail \in BOOLEAN :
       BasicAuthenticate(r, a, fail)
  \/ \E r \in Reqs, fail \in BOOLEAN : GetConnect(r, fail)
  \/ \E r \in Reqs, x \in 0..MaxTokens, fail \in BOOLEAN :
       XTokenAuthenticate(r, x, fail)
  \/ \E r \in Reqs, fail \in BOOLEAN : XTokenFindUser(r, fail)
  \/ \E r \in Reqs, fail \in BOOLEAN : GetDisconnect(r, fail)
  \/ \E r \in Reqs, e \in Emails \cup {<<>>}, p \in Passwords \cup {<<>>},
        fail \in BOOLEAN : PostNewFind(r, e, p, fail)
  \/ \E r \in Reqs, fail \in BOOLEAN : PostNewInsert(r, fail, TRUE)
  \/ Tick
  \/ \E u \in users : RemoveUser(u)
  \/ \E r \in Reqs : Close(r)

Spec == Init /\ [][Next]_vars

(* ------------------------------ the claims ---------------------------- *)
Done(r) == reqs[r].pc = "done"
Issued(t) == issued[t] # NotIssued
\* the session of t has been issued and has neither been revoked nor run out
\* of the 86400 seconds the specification gives it
InForce(t) == Issued(t) /\ t \notin revoked /\ now < issued[t].at + 86400
\* a request answered 401 by the bearer middleware right after its cache read
UnknownToken(r) ==
  /\ Done(r) /\ reqs[r].route = "disconnect" /\ reqs[r].sentBy = "middleware"
  /\ reqs[r].cacheCalls = 1 /\ reqs[r].dbCalls = 0

\* C1: a token returned by a successful connect for user u resolves, while it
\* is neither revoked nor expired, to exactly u: the key written is the key
\* read.  A 200 {token} leaves auth_<token> -> u's id in the cache; a bearer
\* request is never answered "unknown token" while its token is in force; and
\* whatever id or user a bearer request resolves is the one the token was
\* issued to.
C1_IssueThenResolve ==
  \A r \in Reqs :
    /\ (Done(r) /\ reqs[r].route = "connect" /\ reqs[r].status = 200) =>
         /\ reqs[r].token \in Tokens
         /\ issued[reqs[r].token].uid = reqs[r].user._id
         /\ RedisGet(cache, XTokenKey(reqs[r].token), now)
              = IdToString(reqs[r].user._id)
    /\ UnknownToken(r) => ~InForce(reqs[r].xtoken)
    /\ (reqs[r].route = "disconnect" /\ reqs[r].userId # <<>>) =>
         /\ Issued(reqs[r].xtoken)
         /\ reqs[r].userId = IdToString(issued[reqs[r].xtoken].uid)
    /\ (reqs[r].route = "disconnect" /\ reqs[r].user # NoUser) =>
         reqs[r].user._id = issued[reqs[r].xtoken].uid

\* a bearer request has resolved its token to the user, half a day after the issue
C1_Witness ==
  \E r \in Reqs :
    /\ reqs[r].route = "disconnect" /\ reqs[r].pc = "getDisconnect"
    /\ reqs[r].user._id = issued[reqs[r].xtoken].uid
    /\ now > issued[reqs[r].xtoken].at

\* a step of r that is the bearer middleware's cache read
ResolveStep(r) == reqs[r].pc = "idle" /\ reqs'[r].route = "disconnect"
\* a step of r that is getDisconnect
RevokeStep(r) == reqs[r].pc = "getDisconnect" /\ reqs'[r].pc = "done"
\* a step of r that is getConnect
IssueStep(r) == reqs[r].pc = "getConnect" /\ reqs'[r].pc = "done"
Live(t) == RedisGet(cache, XTokenKey(t), now) # <<>>

\* C2: once the revoke of t has completed (204), t is not in the cache and
\* never comes back, and every bearer resolution of t that starts afterwards
\* ends without a user id (401, or no answer when the cache read itself
\* fails), whatever the other requests do meanwhile.
C2_RevokedStaysUnknown ==
  /\ [](\A t \in revoked : ~Live(t) /\ XTokenKey(t) \notin DOMAIN cache)
  /\ [][\A r \in Reqs :
          /\ (RevokeStep(r) /\ reqs'[r].status = 204) => reqs[r].xtoken \in revoked'
          /\ (ResolveStep(r) /\ reqs'[r].xtoken \in revoked) =>
               /\ reqs'[r].userId = <<>>
               /\ reqs'[r].user = NoUser
               /\ reqs'[r].pc \in {"done", "unhandled"}
               /\ (reqs'[r].pc = "done" => reqs'[r].status = 401)]_vars

\* a bearer request with a revoked token has been answered 401 while another
\* token is still live
C2_Witness ==
  \E r \in Reqs :
    /\ UnknownToken(r) /\ reqs[r].xtoken \in revoked /\ reqs[r].status = 401
    /\ \E t \in Tokens : t # reqs[r].xtoken /\ Live(t)

\* C3: two issues for the same user give two different tokens (getConnect
\* never returns a token it has returned), every token in force is in the
\* cache with its user's id whatever the other tokens are, and a revoke
\* leaves every other cache entry as it was.
C3_IndependentTokens ==
  /\ [](\A t \in Tokens : InForce(t) =>
          RedisGet(cache, XTokenKey(t), now) = IdToString(issued[t].uid))
  /\ [][\A r \in Reqs :
          /\ (IssueStep(r) /\ reqs'[r].status = 200) =>
               /\ reqs'[r].token \notin usedTokens
               /\ ~Issued(reqs'[r].token)
               /\ \A k \in DOMAIN cache : k \in DOMAIN cache' /\ cache'[k] = cache[k]
          /\ RevokeStep(r) =>
               /\ DOMAIN cache' \subseteq DOMAIN cache
               /\ \A k \in DOMAIN cache \ {XTokenKey(reqs[r].xtoken)} :
                    k \in DOMAIN cache' /\ cache'[k] = cache[k]]_vars

\* one user holds two tokens, one revoked and the other still resolvable
C3_Witness ==
  \E t1 \in Tokens, t2 \in Tokens :
    /\ t1 # t2 /\ Issued(t1) /\ issued[t1].uid = issued[t2].uid
    /\ t1 \in revoked /\ Live(t2)
    /\ RedisGet(cache, XTokenKey(t2), now) = IdToString(issued[t2].uid)

\* C4: every cache entry is the session of one issued token and holds the id
\* of the user the token was issued to; that user is the stored user whose
\* email and password the connect request's Basic header carried; and no step
\* changes the user of an issued token or the value of a cache entry.
C4_OneUserPerToken ==
  /\ [](\A k \in DOMAIN cache : \E t \in Tokens :
          /\ k = ConnectKey(t) /\ Issued(t)
          /\ cache[k].value = IdToString(issued[t].uid))
  /\ [](\A r \in Reqs :
          (Done(r) /\ reqs[r].route = "connect" /\ reqs[r].status = 200) =>
            LET cred == ParseAuthorization(reqs[r].authorization)
                user == reqs[r].user
            IN /\ cred.ok /\ user.email = cred.email
               /\ user.password = sha1(cred.password)
               /\ issued[reqs[r].token].uid = user._id /\ user._id # 0)
  /\ [][/\ \A t \in Tokens : Issued(t) => issued'[t] = issued[t]
        /\ \A k \in DOMAIN cache \cap DOMAIN cache' :
             cache'[k].value = cache[k].value]_vars

\* two live tokens belong to two different users
C4_Witness ==
  \E t1 \in Tokens, t2 \in Tokens :
    /\ Live(t1) /\ Live(t2) /\ issued[t1].uid # issued[t2].uid
    /\ cache[ConnectKey(t1)].value # cache[ConnectKey(t2)].value

\* C5: a session is stored as the user's id with an expiration exactly 86400
\* seconds after its issue, so no token is in the cache 86400 seconds after
\* its issue and a bearer resolution that starts then ends, with no revoke,
\* without a user.
C5_TtlIsOneDay ==
  /\ [](\A t \in Tokens : ConnectKey(t) \in DOMAIN cache =>
          cache[ConnectKey(t)] = [value |-> IdToString(issued[t].uid),
                                  expireAt |-> issued[t].at + 86400])
  /\ [](\A t \in Tokens : (Issued(t) /\ now >= issued[t].at + 86400) => ~Live(t))
  /\ [][\A r \in Reqs :
          /\ (IssueStep(r) /\ reqs'[r].status = 200) =>
               cache'[ConnectKey(reqs'[r].token)]
                 = [value |-> IdToString(reqs[r].user._id), expireAt |-> now + 86400]
          /\ (ResolveStep(r) /\ reqs'[r].xtoken \in Tokens
                /\ Issued(reqs'[r].xtoken)
                /\ now >= issued[reqs'[r].xtoken].at + 86400) =>
               /\ reqs'[r].userId = <<>>
               /\ reqs'[r].pc \in {"done", "unhandled"}
               /\ (reqs'[r].pc = "done" => reqs'[r].status = 401)]_vars

\* a token nobody revoked is answered 401 a day after its issue
C5_Witness ==
  \E r \in Reqs :
    /\ UnknownToken(r) /\ reqs[r].status = 401
    /\ Issued(reqs[r].xtoken) /\ reqs[r].xtoken \notin revoked
    /\ now >= issued[reqs[r].xtoken].at + 86400

\* C6: register, connect, disconnect, disconnect.  A connect whose Basic
\* credentials are a stored user's is answered 200 with a token; the
\* disconnect that removes the session is answered 204 with no body; a
\* disconnect whose X-Token is missing, was never issued or is revoked is
\* answered 401 Unauthorized and changes no cache entry.  (The cache and the
\* user store answer every call of the scenario.)
C6_Scenario ==
  /\ [](\A r \in Reqs :
          /\ (Done(r) /\ reqs[r].route = "connect" /\ reqs[r].user # NoUser
                /\ reqs[r].fault \notin {"cache", "db"}) =>
               reqs[r].status = 200 /\ reqs[r].token \in Tokens
          /\ (Done(r) /\ reqs[r].route = "disconnect" /\ reqs[r].deleted = 1) =>
               reqs[r].status = 204 /\ reqs[r].error = ""
          /\ (Done(r) /\ reqs[r].route = "disconnect" /\ reqs[r].dbCalls = 0
                /\ reqs[r].fault = "none"
                /\ (reqs[r].xtoken = 0 \/ ~Issued(reqs[r].xtoken)
                      \/ reqs[r].xtoken \in revoked)) =>
               reqs[r].status = 401 /\ reqs[r].error = "Unauthorized")
  /\ [][\A r \in Reqs :
          (ResolveStep(r) /\ reqs'[r].status = 401) => cache' = cache]_vars

\* C7: a revoke of a token that is not in the cache (never issued, revoked
\* already, expired) is answered like any other revoke, 204 and no error,
\* and leaves the cache as it was.
C7_RevokeIdempotent ==
  /\ [](\A r \in Reqs :
          (Done(r) /\ reqs[r].route = "disconnect" /\ reqs[r].sentBy = "handler"
             /\ reqs[r].fault = "none") =>
            reqs[r].status = 204 /\ reqs[r].error = "")
  /\ [][\A r \in Reqs :
          (RevokeStep(r) /\ DisconnectKey(reqs[r].xtoken) \notin DOMAIN cache
             /\ reqs'[r].fault = "none") =>
            /\ cache' = cache
            /\ reqs'[r].status = 204 /\ reqs'[r].deleted = 0]_vars

\* a second revoke of a revoked token has been answered 204 while another
\* session is live
C7_Witness ==
  \E r \in Reqs :
    /\ Done(r) /\ reqs[r].route = "disconnect" /\ reqs[r].status = 204
    /\ reqs[r].deleted = 0 /\ reqs[r].xtoken \in revoked
    /\ DOMAIN cache # {}

\* a step of r that is the bearer middleware's user lookup
FindUserStep(r) == reqs[r].pc = "findUser" /\ reqs'[r].pc # "findUser"
Unauthorized(q) ==
  /\ q.pc = "done" /\ q.status = 401 /\ q.error = "Unauthorized"
  /\ q.user = NoUser /\ q.nexts = 0 /\ q.fault = "none"

\* C8: the bearer resolution ends Unauthorized, with no error raised, when
\* the X-Token header is absent (and then without a call to the cache or the
\* user store), when the cache has no live entry for the token, and when the
\* entry's user id is no stored user's.  (In the last two cases the cache and
\* the user store answer the call made to them.)
C8_BearerUnauthorized ==
  [][\A r \in Reqs :
       /\ (ResolveStep(r) /\ reqs'[r].xtoken = 0) =>
            /\ Unauthorized(reqs'[r])
            /\ reqs'[r].cacheCalls = 0 /\ reqs'[r].dbCalls = 0
       /\ (ResolveStep(r) /\ reqs'[r].xtoken # 0 /\ ~Live(reqs'[r].xtoken)
             /\ reqs'[r].fault = "none") => Unauthorized(reqs'[r])
       /\ (FindUserStep(r) /\ reqs'[r].fault = "none"
             /\ \A u \in users : u._id # ObjectId(reqs[r].userId)) =>
            Unauthorized(reqs'[r])]_vars

\* a token whose user has left the store has been answered 401 while another
\* user is stored
C8_Witness ==
  \E r \in Reqs :
    /\ Done(r) /\ reqs[r].route = "disconnect" /\ reqs[r].status = 401
    /\ reqs[r].cacheCalls = 1 /\ reqs[r].dbCalls = 1 /\ reqs[r].userId # <<>>
    /\ users # {}

C10_FailureAnswered500 ==
  \A r \in Reqs :
    reqs[r].fault \in {"cache", "db"} =>
      Done(r) /\ reqs[r].status = 500 /\ reqs[r].sends = 1

(* ------------------- Basic credentials, header by header -------------- *)
\* addresses that differ by case only; passwords without and with a ':'
CaseEmails == {<<97>>, <<65>>}
ColonPasswords == {<<112>>, <<112, COLON, 113>>}
\* what one character of a payload is changed into: 'A', 'F', '!', '='
Replacements == {65, 70, 33, EQUALS}

\* base64(email:password), the second part of a well-formed header
Payload(email, password) == Base64Encode(email \o <<COLON>> \o password)

\* the payloads one character away from the payload of an 'a' with a
\* registered password
MutatedPayloads ==
  UNION {{[pl EXCEPT ![i] = c] : i \in 1..Len(pl), c \in Replacements} \ {pl} :
           pl \in {Payload(e, p) : e \in Emails \cap CaseEmails, p \in ColonPasswords}}

\* the Authorization headers of this section: those of Authorizations, the
\* well-formed ones over the addresses and passwords above, the changed
\* payloads, and headers that are not 'Basic <base64(email:password)>':
\* one part, three parts, 'basic', a payload with a '!' after it, a payload
\* that decodes to "ap"
BasicHeaders ==
  Authorizations
  \cup {BasicHeader(e, p) : e \in CaseEmails, p \in ColonPasswords \cup TypedPasswords}
  \cup {BASIC \o <<SPACE>> \o m : m \in MutatedPayloads}
  \cup {BASIC,
        BASIC \o <<SPACE, SPACE>> \o Payload(<<97>>, <<112>>),
        <<98, 97, 115, 105, 99, SPACE>> \o Payload(<<97>>, <<112>>),
        BASIC \o <<SPACE>> \o Payload(<<97>>, <<112>>) \o <<33>>,
        BASIC \o <<SPACE>> \o Base64Encode(<<97, 112>>)}

\* Registrations and connects with these headers, the user store and the
\* cache answering every call.
NextBasic ==
  \/ \E r \in Reqs, e \in CaseEmails, p \in ColonPasswords :
       PostNewFind(r, e, p, FALSE)
  \/ \E r \in Reqs : PostNewInsert(r, FALSE, TRUE)
  \/ \E r \in Reqs, a \in BasicHeaders : BasicAuthenticate(r, a, FALSE)
  \/ \E r \in Reqs : GetConnect(r, FALSE)
  \/ \E r \in Reqs : Close(r)

SpecBasic == Init /\ [][NextBasic]_vars

(* -------------------- the claims on Basic credentials ----------------- *)
\* base64 as RFC 4648 writes it: groups of four characters of the alphabet
\* A-Z a-z 0-9 + /, the last group closed by one or two '=' at most
WellFormedBase64(s) ==
  /\ Len(s) % 4 = 0
  /\ \A i \in 1..Len(s) :
       \/ B64Val(s[i]) # -1 /\ s[i] \notin {45, 95}
       \/ /\ s[i] = EQUALS /\ i >= Len(s) - 1
          /\ \A j \in (i + 1)..Len(s) : s[j] = EQUALS

\* the header is missing, is not two parts separated by one space, names
\* another scheme than 'Basic', carries a payload that is not base64, or
\* carries one that decodes to a text without ':'
ParseFailure(h) ==
  \/ h = <<>>
  \/ LET parts == Split(h)
     IN \/ Len(parts) # 2
        \/ parts[1] # BASIC
        \/ ~WellFormedBase64(parts[2])
        \/ IndexOf(Base64Decode(parts[2]), COLON) = -1

\* C11: a connect whose Authorization header is a parse failure is answered
\* 401 Unauthorized by basicAuthenticate, with no user attached and the
\* handler not called.
C11_ParseFailureUnauthorized ==
  \A r \in Reqs :
    (reqs[r].route = "connect" /\ ParseFailure(reqs[r].authorization)) =>
      /\ Done(r) /\ reqs[r].sentBy = "middleware"
      /\ reqs[r].status = 401 /\ reqs[r].error = "Unauthorized"
      /\ reqs[r].user = NoUser /\ reqs[r].nexts = 0

\* C12: the decoded payload is cut at its first ':' only.  For a header
\* 'Basic base64(email:password)' the email read is that email and the
\* password read is that password, ':' included; and when the record stored
\* under the email carries the hash of that password, the request passes
\* with that record attached.
C12_SplitAtFirstColon ==
  \A r \in Reqs, e \in CaseEmails, p \in ColonPasswords \cup TypedPasswords :
    (reqs[r].route = "connect" /\ reqs[r].authorization = BasicHeader(e, p)) =>
      LET cred == ParseAuthorization(reqs[r].authorization)
          found == FindOneByEmail(users, e)
      IN /\ cred.ok /\ cred.email = e /\ cred.password = p
         /\ (found # NoUser /\ found.password = sha1(p)) =>
              /\ reqs[r].user = found
              /\ reqs[r].nexts = 1 /\ reqs[r].sentBy # "middleware"

\* a user registered with the password "p:q" has passed basicAuthenticate
C12_Witness ==
  \E r \in Reqs :
    /\ reqs[r].route = "connect" /\ reqs[r].pc = "getConnect"
    /\ reqs[r].authorization = BasicHeader(<<97>>, <<112, COLON, 113>>)
    /\ reqs[r].user.password = sha1(<<112, COLON, 113>>)
    /\ reqs[r].nexts = 1

\* C13: a connect with the exact email and password of a stored user passes
\* with a record of that email and password attached; a connect whose email
\* and password are no stored user's (another password, an email that differs
\* from every stored one, if only by case) is answered 401 Unauthorized.
C13_VerifyExact ==
  \A r \in Reqs, e \in CaseEmails, p \in ColonPasswords \cup TypedPasswords :
    (reqs[r].route = "connect" /\ reqs[r].authorization = BasicHeader(e, p)) =>
      LET match == {u \in users : u.email = e /\ u.password = sha1(p)}
      IN /\ match # {} => (reqs[r].user \in match /\ reqs[r].nexts = 1)
         /\ match = {} =>
              /\ Done(r) /\ reqs[r].status = 401 /\ reqs[r].error = "Unauthorized"
              /\ reqs[r].user = NoUser /\ reqs[r].nexts = 0

\* what a client sees of a response: the status and the fields of the body
Observable(q) == <<q.status, q.error, q.token, q.id>>

\* C14: every authentication that fails is answered the same way, 401 with
\* the body {error: 'Unauthorized'} and nothing else, whether the
\* Authorization header is missing or names another scheme, the email is
\* unknown, the password is wrong for a known email, or the token is unknown.
C14_UniformUnauthorized ==
  \A r \in Reqs :
    (Done(r) /\ reqs[r].route \in {"connect", "disconnect"} /\ reqs[r].nexts = 0) =>
      Observable(reqs[r]) = <<401, "Unauthorized", 0, 0>>

\* a wrong password for a known email has been answered, after the lookup
C14_Witness ==
  \E r \in Reqs, e \in Emails :
    /\ Done(r) /\ reqs[r].route = "connect" /\ reqs[r].nexts = 0
    /\ reqs[r].authorization = BasicHeader(e, <<113>>)
    /\ reqs[r].dbCalls = 1 /\ reqs[r].status = 401
    /\ \E u \in users : u.email = e

\* the payloads that differ from pl in exactly one character
OneCharacterChanges(pl) ==
  {[pl EXCEPT ![i] = c] : i \in 1..Len(pl), c \in Replacements} \ {pl}

\* C15: a connect with 'Basic base64(email:password)' of a stored user
\* passes, and a connect whose payload is that payload with one character
\* changed is answered 401 Unauthorized.
C15_MutationRejected ==
  \A r \in Reqs, e \in Emails \cap CaseEmails, p \in ColonPasswords :
    (reqs[r].route = "connect"
       /\ \E u \in users : u.email = e /\ u.password = sha1(p)) =>
      /\ reqs[r].authorization = BasicHeader(e, p) =>
           (reqs[r].user # NoUser /\ reqs[r].nexts = 1)
      /\ (\E m \in OneCharacterChanges(Payload(e, p)) :
            reqs[r].authorization = BASIC \o <<SPACE>> \o m) =>
           /\ Done(r) /\ reqs[r].status = 401 /\ reqs[r].error = "Unauthorized"
           /\ reqs[r].user = NoUser /\ reqs[r].nexts = 0

(* ------------------------- the queues at work ------------------------- *)
UserQueueName == "email sending"
FileQueueName == "thumbnail generation"
JobsOf(qn) == IF qn = UserQueueName THEN userQueue ELSE fileQueue

\* the queue qn holds `job` at place i, the other queue is as it was
PutJob(qn, i, job) ==
  /\ userQueue' = IF qn = UserQueueName THEN [userQueue EXCEPT ![i] = job]
                  ELSE userQueue
  /\ fileQueue' = IF qn = FileQueueName THEN [fileQueue EXCEPT ![i] = job]
                  ELSE fileQueue

\* a queue that hands out a job another worker is still running
NextWaitingOrActive(q) ==
  IF \E i \in 1..Len(q) : q[i].state \in {"waiting", "active"}
  THEN CHOOSE i \in 1..Len(q) :
         /\ q[i].state \in {"waiting", "active"}
         /\ \A j \in 1..(i - 1) : q[j].state \notin {"waiting", "active"}
  ELSE 0

\* the job the queue hands to a worker that asks for one: the first that
\* waits, 0 when none does.  A job that is active is locked by its worker.
NextWaiting(q) ==
  IF \E i \in 1..Len(q) : q[i].state = "waiting"
  THEN CHOOSE i \in 1..Len(q) :
         q[i].state = "waiting" /\ \A j \in 1..(i - 1) : q[j].state # "waiting"
  ELSE 0

\* a completion that puts the job back among the waiting ones
JobSucceedRequeued(job) == [job EXCEPT !.dones = @ + 1, !.state = "waiting"]

\* done(): the job is completed
JobSucceed(job) == [job EXCEPT !.dones = @ + 1, !.state = "completed"]

\* done(error): one more attempt is made; the job waits again while attempts
\* remain and is failed when none does
JobFail(job, reason) ==
  [job EXCEPT !.dones = @ + 1, !.attemptsMade = @ + 1, !.failedReason = reason,
              !.state = IF job.attemptsMade + 1 < job.attempts THEN "waiting"
                        ELSE "failed"]

\* the files collection, which no code of worker.js or of the API writes:
\* one image, stored by its owner, user 1
FilesCollection == {[_id |-> 1, userId |-> 1, localPath |-> "/tmp/files_manager/1"]}

\* const sizes = [500, 250, 100]
Sizes == {500, 250, 100}

\* the ids a job can name: files are looked up by an id of the same kind
FileIds == {<<>>, IdToString(1), IdToString(2)}
UserIds == {<<>>} \cup {IdToString(i) : i \in 1..MaxUsers}
JobDatas(qn) ==
  IF qn = UserQueueName THEN {JobData(<<>>, u) : u \in UserIds}
  ELSE {JobData(f, u) : f \in FileIds, u \in UserIds}

\* A producer other than postNew adds a job: the upload handler for
\* thumbnails, or any process that opens the queue by its name.
Enqueue(qn, data, attempts) ==
  /\ ~Answered
  /\ Len(userQueue) + Len(fileQueue) < MaxJobs
  /\ userQueue' = IF qn = UserQueueName THEN Append(userQueue, NewJob(data, attempts))
                  ELSE userQueue
  /\ fileQueue' = IF qn = FileQueueName THEN Append(fileQueue, NewJob(data, attempts))
                  ELSE fileQueue
  /\ UNCHANGED <<redisModule, outbox, users, nextId, cache, now, usedTokens, reqs,
                 runs, issued, revoked>>

\* queue.process(handler) of worker w takes the next job: it becomes active
\* and the handler is called with it
Deliver(w, qn) ==
  /\ ~Answered
  /\ runs[w][qn] = IdleRun
  /\ NextWaiting(JobsOf(qn)) # 0
  /\ LET i == NextWaiting(JobsOf(qn))
         job == JobsOf(qn)[i]
     IN /\ PutJob(qn, i, [job EXCEPT !.state = "active", !.deliveries = @ + 1])
        /\ runs' = [runs EXCEPT ![w][qn] = [job |-> i, pc |-> "handler"]]
  /\ UNCHANGED <<redisModule, outbox, users, nextId, cache, now, usedTokens, reqs,
                 issued, revoked>>

(* ------------------------------ worker.js ----------------------------- *)
\* a handler without its try: what the lookup throws leaves the handler and
\* done is never called
FileHandlerUncaught(w) ==
  /\ ~Answered
  /\ runs[w][FileQueueName].pc = "handler"
  /\ LET i == runs[w][FileQueueName].job
         job == fileQueue[i]
     IN PutJob(FileQueueName, i,
          IF job.data.fileId = <<>> THEN JobFail(job, "Missing fileId")
          ELSE IF job.data.userId = <<>> THEN JobFail(job, "Missing userId")
          ELSE job)
  /\ runs' = [runs EXCEPT ![w][FileQueueName] = IdleRun]
  /\ UNCHANGED <<redisModule, outbox, users, nextId, cache, now, usedTokens, reqs,
                 issued, revoked>>

\* fileQueue.process: 'Missing fileId', 'Missing userId', then the lookup of
\* the file, which never starts: DBClient has no filesCollection method, the
\* call throws inside the try and the catch reports the job failed.  The
\* resizes and writes that follow the lookup are never reached.
FileHandler(w) ==
  /\ ~Answered
  /\ runs[w][FileQueueName].pc = "handler"
  /\ LET i == runs[w][FileQueueName].job
         job == fileQueue[i]
     IN PutJob(FileQueueName, i,
          IF job.data.fileId = <<>> THEN JobFail(job, "Missing fileId")
          ELSE IF job.data.userId = <<>> THEN JobFail(job, "Missing userId")
          ELSE JobFail(job, "dbClient.filesCollection is not a function"))
  /\ runs' = [runs EXCEPT ![w][FileQueueName] = IdleRun]
  /\ UNCHANGED <<redisModule, outbox, users, nextId, cache, now, usedTokens, reqs,
                 issued, revoked>>

\* a handler that goes to its lookup whatever the payload
UserHandlerNoValidation(w) ==
  /\ ~Answered
  /\ runs[w][UserQueueName].pc = "handler"
  /\ runs' = [runs EXCEPT ![w][UserQueueName].pc = "findOne"]
  /\ UNCHANGED <<redisModule, outbox, users, nextId, cache, now, usedTokens, reqs,
                 userQueue, fileQueue, issued, revoked>>

\* a handler that reports 'Missing userId' without returning, and goes on
UserHandlerNoReturn(w) ==
  /\ ~Answered
  /\ runs[w][UserQueueName].pc = "handler"
  /\ LET i == runs[w][UserQueueName].job
         job == userQueue[i]
     IN IF job.data.userId = <<>>
        THEN PutJob(UserQueueName, i, JobFail(job, "Missing userId"))
        ELSE UNCHANGED <<userQueue, fileQueue>>
  /\ runs' = [runs EXCEPT ![w][UserQueueName].pc = "findOne"]
  /\ UNCHANGED <<redisModule, outbox, users, nextId, cache, now, usedTokens, reqs,
                 issued, revoked>>

\* userQueue.process up to its lookup: 'Missing userId' is reported at once
UserHandler(w) ==
  /\ ~Answered
  /\ runs[w][UserQueueName].pc = "handler"
  /\ LET i == runs[w][UserQueueName].job
         job == userQueue[i]
     IN IF job.data.userId = <<>>
        THEN /\ PutJob(UserQueueName, i, JobFail(job, "Missing userId"))
             /\ runs' = [runs EXCEPT ![w][UserQueueName] = IdleRun]
        ELSE /\ runs' = [runs EXCEPT ![w][UserQueueName].pc = "findOne"]
             /\ UNCHANGED <<userQueue, fileQueue>>
  /\ UNCHANGED <<redisModule, outbox, users, nextId, cache, now, usedTokens, reqs,
                 issued, revoked>>

\* Mailer.sendMail(mail): the send as the mailer first holds it
NewSend(i, to) == [job |-> i, to |-> to, state |-> "dispatched"]

\* a handler that mails whoever the job names, stored or not
UserFindOneNoCheck(w, fail, sender) ==
  /\ ~Answered
  /\ runs[w][UserQueueName].pc = "findOne"
  /\ LET i == runs[w][UserQueueName].job
         job == [userQueue[i] EXCEPT !.lookups = @ + 1]
         user == IF job.data.userId = <<>> THEN NoUser
                 ELSE FindOneById(users, ObjectId(job.data.userId))
     IN IF fail \/ ~sender
        THEN /\ PutJob(UserQueueName, i,
                  IF fail THEN JobFail(job, "lookup rejected")
                  ELSE JobFail(job, "Invalid sender"))
             /\ UNCHANGED outbox
        ELSE /\ PutJob(UserQueueName, i, JobSucceed([job EXCEPT !.mails = @ + 1]))
             /\ outbox' = Append(outbox, NewSend(i, user.email))
  /\ runs' = [runs EXCEPT ![w][UserQueueName] = IdleRun]
  /\ UNCHANGED <<redisModule, users, nextId, cache, now, usedTokens, reqs,
                 issued, revoked>>

\* userQueue.process from its lookup on: 'User not found', or the message is
\* built (buildMessage throws without process.env.GMAIL_SENDER), handed to
\* Mailer.sendMail without waiting for it, and done() is called.  Whatever is
\* thrown is reported by the catch.  new ObjectId(undefined) is a fresh id,
\* no stored document's.
UserFindOne(w, fail, sender) ==
  /\ ~Answered
  /\ runs[w][UserQueueName].pc = "findOne"
  /\ LET i == runs[w][UserQueueName].job
         job == [userQueue[i] EXCEPT !.lookups = @ + 1]
         user == IF job.data.userId = <<>> THEN NoUser
                 ELSE FindOneById(users, ObjectId(job.data.userId))
     IN IF fail \/ user = NoUser \/ ~sender
        THEN /\ PutJob(UserQueueName, i,
                  IF fail THEN JobFail(job, "lookup rejected")
                  ELSE IF user = NoUser THEN JobFail(job, "User not found")
                  ELSE JobFail(job, "Invalid sender"))
             /\ UNCHANGED outbox
        ELSE /\ PutJob(UserQueueName, i, JobSucceed([job EXCEPT !.mails = @ + 1]))
             /\ outbox' = Append(outbox, NewSend(i, user.email))
  /\ runs' = [runs EXCEPT ![w][UserQueueName] = IdleRun]
  /\ UNCHANGED <<redisModule, users, nextId, cache, now, usedTokens, reqs,
                 issued, revoked>>

(* ------------------------------ mailer.js ----------------------------- *)
\* what becomes of a send: the message is sent, credentials.json cannot be
\* read, the stored token does not authorize the client, or the mail API
\* answers an error
SendOutcomes ==
  {"sent", "credentials unreadable", "authorization failure", "API error"}

\* a mailer whose failures come back to the job that asked for the send
SendMailReported(k, outcome) ==
  /\ ~Answered
  /\ outbox[k].state = "dispatched"
  /\ outbox' = [outbox EXCEPT ![k].state = outcome]
  /\ PutJob(UserQueueName, outbox[k].job,
        IF outcome = "sent" THEN userQueue[outbox[k].job]
        ELSE [userQueue[outbox[k].job] EXCEPT !.state = "failed",
                                              !.failedReason = outcome])
  /\ UNCHANGED <<redisModule, users, nextId, cache, now, usedTokens, reqs, runs,
                 issued, revoked>>

\* Mailer.sendMail after its return: the promise chain settles; every
\* failure is caught and logged, none is handed to the caller
SendMail(k, outcome) ==
  /\ ~Answered
  /\ outbox[k].state = "dispatched"
  /\ outbox' = [outbox EXCEPT ![k].state = outcome]
  /\ UNCHANGED <<redisModule, users, nextId, cache, now, usedTokens, reqs,
                 userQueue, fileQueue, runs, issued, revoked>>

\* The worker processes start with the users registered so far: none, or
\* one, stored as postNew stores it.
InitWorker ==
  /\ redisModule \in {"setex", "shadow"}
  /\ users \in {{}} \cup {{[_id |-> 1, email |-> e, password |-> sha1(p)]} :
                            e \in Emails \cap CaseEmails, p \in Passwords}
  /\ nextId = Cardinality(users) + 1
  /\ cache = <<>>
  /\ now = 0
  /\ usedTokens = {}
  /\ reqs = [r \in Reqs |-> IdleReq]
  /\ userQueue = <<>>
  /\ fileQueue = <<>>
  /\ runs = [w \in Workers |-> [qn \in QueueNames |-> IdleRun]]
  /\ outbox = <<>>
  /\ issued = [t \in Tokens |-> NotIssued]
  /\ revoked = {}

\* The producers, the workers and the mailer.  A job is added with the
\* attempts its producer asks for: one, as postNew asks, or more.
NextWorker ==
  \/ \E qn \in QueueNames, attempts \in 1..MaxAttempts :
       \E data \in JobDatas(qn) : Enqueue(qn, data, attempts)
  \/ \E w \in Workers, qn \in QueueNames : Deliver(w, qn)
  \/ \E w \in Workers : FileHandler(w)
  \/ \E w \in Workers : UserHandler(w)
  \/ \E w \in Workers, fail \in BOOLEAN, sender \in BOOLEAN :
       UserFindOne(w, fail, sender)
  \/ \E k \in 1..Len(outbox), outcome \in SendOutcomes : SendMail(k, outcome)

SpecWorker == InitWorker /\ [][NextWorker]_vars

\* The workers keep running: a queue with a waiting job and a worker free
\* for it hands the job out, and a handler that has a job goes on to its next
\* step (the store answers its lookup, one way or the other).
FairWorker ==
  /\ \A qn \in QueueNames : WF_vars(\E w \in Workers : Deliver(w, qn))
  /\ \A w \in Workers :
       /\ WF_vars(FileHandler(w))
       /\ WF_vars(UserHandler(w))
       /\ WF_vars(\E fail \in BOOLEAN, sender \in BOOLEAN :
                    UserFindOne(w, fail, sender))

SpecWorkerFair == SpecWorker /\ FairWorker

(* ------------------------ the claims on the queues -------------------- *)
JobIds(qn) == 1..Len(JobsOf(qn))
\* the workers whose handler of qn is running job i
Holders(qn, i) == {w \in Workers : runs[w][qn].job = i}
\* the payload lacks a field the handler of its queue requires
LacksField(qn, job) ==
  \/ job.data.userId = <<>>
  \/ qn = FileQueueName /\ job.data.fileId = <<>>

\* C16: a job whose handler has called done() with no error (the welcome
\* mail was handed to the mailer) is completed and stays so: no worker holds
\* it, it is never delivered again and nothing about it changes, whatever
\* else the workers process afterwards.
C16_CompletedStaysCompleted ==
  /\ [](\A qn \in QueueNames : \A i \in JobIds(qn) :
          /\ JobsOf(qn)[i].mails >= 1 => JobsOf(qn)[i].state = "completed"
          /\ JobsOf(qn)[i].state = "completed" =>
                /\ Holders(qn, i) = {}
                /\ JobsOf(qn)[i].mails = 1
                /\ JobsOf(qn)[i].dones = JobsOf(qn)[i].deliveries)
  /\ [][\A qn \in QueueNames : \A i \in JobIds(qn) :
          JobsOf(qn)[i].state = "completed" => JobsOf(qn)'[i] = JobsOf(qn)[i]]_vars

\* a job is completed and the job added after it has been delivered since
C16_Witness ==
  /\ Len(userQueue) = 2
  /\ userQueue[1].state = "completed" /\ userQueue[1].deliveries = 1
  /\ userQueue[2].deliveries >= 1

\* C17: a job whose handler has reported a failure is delivered at least
\* once more before it is failed for good.
C17_FailureRedelivered ==
  \A qn \in QueueNames : \A i \in JobIds(qn) :
    JobsOf(qn)[i].state = "failed" => JobsOf(qn)[i].deliveries >= 2

\* C18: a job is never in two handler invocations at once: a job that is
\* active is held by exactly one worker, a worker holds active jobs only,
\* and no two workers hold the same job.
C18_OneHandlerPerJob ==
  \A qn \in QueueNames :
    /\ \A i \in JobIds(qn) :
         Cardinality(Holders(qn, i)) = IF JobsOf(qn)[i].state = "active" THEN 1 ELSE 0
    /\ \A w \in Workers :
         runs[w][qn].job # 0 => runs[w][qn].job \in JobIds(qn)

\* two workers are each running a different job of the same queue
C18_Witness ==
  \E w1 \in Workers, w2 \in Workers :
    /\ w1 # w2
    /\ runs[w1][UserQueueName].job # 0 /\ runs[w2][UserQueueName].job # 0
    /\ runs[w1][UserQueueName].job # runs[w2][UserQueueName].job
    /\ runs[w1][UserQueueName].pc = "findOne" /\ runs[w2][UserQueueName].pc = "findOne"

\* C19: a job whose payload lacks a required field is reported failed by the
\* first step of its handler, 'Missing fileId' or 'Missing userId', before
\* any lookup or mail dispatch (no resize or write is ever reached), and the
\* same way at every attempt.
C19_ValidationFirst ==
  \A qn \in QueueNames : \A i \in JobIds(qn) :
    LET job == JobsOf(qn)[i]
    IN LacksField(qn, job) =>
         /\ job.lookups = 0 /\ job.mails = 0
         /\ job.state # "completed"
         /\ job.dones = job.attemptsMade
         /\ job.state # "active" => job.dones = job.deliveries
         /\ job.dones >= 1 =>
              job.failedReason = IF qn = FileQueueName /\ job.data.fileId = <<>>
                                 THEN "Missing fileId" ELSE "Missing userId"
         /\ \A w \in Holders(qn, i) : runs[w][qn].pc = "handler"

\* a welcome-email job without userId has been reported failed, and a
\* thumbnail job without fileId has been reported failed at two attempts
C19_Witness ==
  /\ \E i \in JobIds(UserQueueName) :
       /\ userQueue[i].data.userId = <<>>
       /\ userQueue[i].state = "failed" /\ userQueue[i].dones = 1
       /\ userQueue[i].failedReason = "Missing userId"
  /\ \E i \in JobIds(FileQueueName) :
       /\ fileQueue[i].data.fileId = <<>>
       /\ fileQueue[i].state = "failed" /\ fileQueue[i].dones = 2
       /\ fileQueue[i].failedReason = "Missing fileId"

\* C20: a job that fails its handler's validation is not delivered again.
C20_ValidationNotRetried ==
  \A qn \in QueueNames : \A i \in JobIds(qn) :
    LacksField(qn, JobsOf(qn)[i]) => JobsOf(qn)[i].deliveries <= 1

(* ----------------------- the claims on the handlers ------------------ *)
\* the handler invocation of worker w on queue qn ends in this step
HandlerReturns(w, qn) == runs[w][qn].job # 0 /\ runs'[w][qn] = IdleRun

\* C31: every handler invocation calls done exactly once, whatever its path:
\* a job has been reported as many times as it has been delivered, less the
\* invocation still running; the step that ends an invocation is the step of
\* its one report, and no other step reports anything.  No invocation ends
\* without a report: nothing escapes the handler.
C31_DoneExactlyOnce ==
  /\ [](\A qn \in QueueNames : \A i \in JobIds(qn) :
          /\ JobsOf(qn)[i].dones + Cardinality(Holders(qn, i)) = JobsOf(qn)[i].deliveries
          /\ JobsOf(qn)[i].state = "failed" => JobsOf(qn)[i].failedReason # "")
  /\ [][\A qn \in QueueNames : \A i \in JobIds(qn) :
          JobsOf(qn)'[i].dones =
            JobsOf(qn)[i].dones +
              Cardinality({w \in Holders(qn, i) : HandlerReturns(w, qn)})]_vars

\* the paths taken: a thumbnail job has failed twice on what its lookup
\* throws, a welcome-email job is completed; other runs reach the
\* validation failures, 'User not found' and 'Invalid sender'
C31_Witness ==
  /\ \E i \in JobIds(FileQueueName) :
       /\ fileQueue[i].state = "failed" /\ fileQueue[i].dones = 2
       /\ fileQueue[i].failedReason = "dbClient.filesCollection is not a function"
  /\ \E i \in JobIds(UserQueueName) :
       userQueue[i].state = "completed" /\ userQueue[i].dones = 1

(* -------------------- the claims on the welcome mail ------------------ *)
\* the sends asked for by job i of the email queue
SendsOf(i) == {k \in 1..Len(outbox) : outbox[k].job = i}
\* the job names a user that is not stored
NamesUnknownUser(job) ==
  /\ job.data.userId # <<>>
  /\ FindOneById(users, ObjectId(job.data.userId)) = NoUser

\* C25: a welcome-email job naming a user that is not stored is never
\* completed and no message of it is built or handed to the mailer; each of
\* its attempts makes the lookup and is reported failed, with 'User not
\* found' whenever the lookup itself answered.
C25_UnknownUserNoMail ==
  \A i \in JobIds(UserQueueName) :
    LET job == userQueue[i]
    IN NamesUnknownUser(job) =>
         /\ job.mails = 0 /\ SendsOf(i) = {}
         /\ job.state # "completed"
         /\ job.dones = job.attemptsMade /\ job.lookups = job.dones
         /\ job.state # "active" => job.dones = job.deliveries
         /\ job.dones >= 1 => job.failedReason \in {"User not found", "lookup rejected"}

\* a job naming user 2, who is not stored while user 1 is, has been reported
\* 'User not found' at its second attempt and is failed
C25_Witness ==
  /\ users # {}
  /\ \E i \in JobIds(UserQueueName) :
       /\ NamesUnknownUser(userQueue[i])
       /\ userQueue[i].state = "failed" /\ userQueue[i].dones = 2
       /\ userQueue[i].failedReason = "User not found"

\* C26: the job is completed in the step that hands the message to the
\* mailer, one send per completed job, and whatever becomes of the send
\* afterwards changes no job and starts no handler.
C26_SendNotAwaited ==
  /\ [](/\ \A k \in 1..Len(outbox) :
            /\ outbox[k].job \in JobIds(UserQueueName)
            /\ userQueue[outbox[k].job].state = "completed"
            /\ userQueue[outbox[k].job].dones = userQueue[outbox[k].job].deliveries
        /\ \A i \in JobIds(UserQueueName) :
            Cardinality(SendsOf(i)) = IF userQueue[i].state = "completed" THEN 1 ELSE 0)
  /\ [][(\E k \in 1..Len(outbox) : outbox'[k] # outbox[k]) =>
          UNCHANGED <<userQueue, fileQueue, runs>>]_vars

\* a send has failed at the mail API and its job is completed after its one
\* delivery
C26_Witness ==
  \E k \in 1..Len(outbox) :
    /\ outbox[k].state = "API error"
    /\ userQueue[outbox[k].job].state = "completed"
    /\ userQueue[outbox[k].job].deliveries = 1

(* ------------------- the claim on the end of every job ---------------- *)
\* the job is completed, or failed for good
Terminal(job) == job.state \in {"completed", "failed"}

\* C32: with workers that keep running and the attempts of each job
\* bounded, every job a queue has accepted is eventually completed or
\* failed for good, whatever its payload.
C32_EveryJobEnds ==
  \A qn \in QueueNames : \A i \in 1..MaxJobs :
    (i \in JobIds(qn)) ~> (i \in JobIds(qn) /\ Terminal(JobsOf(qn)[i]))

\* a thumbnail job without fileId and a welcome-email job for a user that is
\* not stored have both run out of their two attempts
C32_Witness ==
  /\ \E i \in JobIds(FileQueueName) :
       /\ fileQueue[i].data.fileId = <<>> /\ fileQueue[i].attempts = MaxAttempts
       /\ Terminal(fileQueue[i])
  /\ \E i \in JobIds(UserQueueName) :
       /\ NamesUnknownUser(userQueue[i]) /\ userQueue[i].attempts = MaxAttempts
       /\ Terminal(userQueue[i])

(* ---------------- the routes that ask for no credentials -------------- *)
\* GET /status and POST /users, the store of the queue answering or not when
\* postNew adds its job
NextPublic ==
  \/ \E r \in Reqs, redisConnected \in BOOLEAN, dbConnected \in BOOLEAN :
       GetStatus(r, redisConnected, dbConnected)
  \/ \E r \in Reqs, e \in Emails \cup {<<>>}, p \in Passwords \cup {<<>>},
        fail \in BOOLEAN : PostNewFind(r, e, p, fail)
  \/ \E r \in Reqs, fail \in BOOLEAN, accepted \in BOOLEAN :
       PostNewInsert(r, fail, accepted)
  \/ \E r \in Reqs : Close(r)

SpecPublic == Init /\ [][NextPublic]_vars

(* --------------------- the claims on the registration ----------------- *)
\* postNew answers request r in this step
PostNewAnswers(r) ==
  reqs[r].pc # "done" /\ reqs'[r].pc = "done" /\ reqs'[r].route = "users"
\* the waiting job of the email queue that carries this user id and nothing else
WelcomeJob(id) == NewJob(JobData(<<>>, IdToString(id)), Attempts)

C28_AcceptedBeforeAnswer ==
  \A r \in Reqs :
    (Done(r) /\ reqs[r].route = "users" /\ reqs[r].status = 201) =>
      \E i \in 1..Len(userQueue) :
        userQueue[i].data.userId = IdToString(reqs[r].id)

\* C29: no two stored users have the same email.
C29_EmailsUnique ==
  \A u \in users, v \in users : u.email = v.email => u = v

(* ------------------------ the claim on the user store ---------------- *)
\* a request handler, a middleware, a job handler or the mailer takes a step
OperationStep == reqs' # reqs \/ runs' # runs \/ outbox' # outbox

\* C33: a step of the API, of the job handlers or of the mailer changes the
\* users collection only when it answers a registration 201, and then by
\* adding one record, under an id no stored record has, whose email is the
\* one submitted and whose password is the sha1 of the one submitted and not
\* the plaintext; every record stored before is still there, unchanged.
C33_UserStoreFrame ==
  [][OperationStep =>
       \/ users' = users
       \/ \E r \in Reqs :
            /\ PostNewAnswers(r) /\ reqs'[r].status = 201
            /\ \E u \in users' \ users :
                 /\ users' = users \cup {u}
                 /\ \A v \in users : v._id # u._id
                 /\ u.email = reqs'[r].body.email
                 /\ u.password = sha1(reqs'[r].body.password)
                 /\ u.password # reqs'[r].body.password]_vars

\* a registered user has connected and disconnected, and the store still
\* holds the hashed record the registration wrote
C33_Witness ==
  \E r \in Reqs :
    /\ Done(r) /\ reqs[r].route = "disconnect" /\ reqs[r].status = 204
    /\ \E u \in users : \E pw \in Passwords :
         /\ u._id = reqs[r].user._id
         /\ u.password = sha1(pw) /\ u.password # pw

(* ------------------------- the claim on GET /status ------------------- *)
\* C30: GET /status is answered 200 with redis and db telling whether the
\* Redis client and the database client are connected.
C30_StatusReportsConnections ==
  \A r \in Reqs :
    (Done(r) /\ reqs[r].route = "status") =>
      /\ reqs[r].status = 200
      /\ reqs[r].redis = reqs[r].redisConnected
      /\ reqs[r].db = reqs[r].dbConnected

(* ---------------------- the claims on the thumbnails ------------------ *)
\* the stored files whose _id and userId are the ones the job names
MatchingFiles(job) ==
  {f \in FilesCollection : /\ f._id = ObjectId(job.data.fileId)
                           /\ f.userId = ObjectId(job.data.userId)}
\* a thumbnail job that names both a file and a user
NamesBoth(job) == job.data.fileId # <<>> /\ job.data.userId # <<>>
\* the artifacts of a file: <localPath>_<width> for the three widths
ArtifactsOf(f) == {[path |-> f.localPath, size |-> w] : w \in Sizes}

\* C21: a thumbnail job naming a file and a user that no stored file matches
\* (unknown file, or a file of another user) is reported failed with
\* 'File not found', with no resize attempted and no artifact written.
C21_NotFoundReported ==
  \A i \in JobIds(FileQueueName) :
    LET job == fileQueue[i]
    IN (NamesBoth(job) /\ MatchingFiles(job) = {} /\ job.dones >= 1) =>
         /\ job.failedReason = "File not found"
         /\ job.state # "completed"
         /\ job.resizes = 0 /\ job.artifacts = {}

\* C22: a thumbnail job naming a stored file and its owner ends completed,
\* with the three artifacts <localPath>_500, _250 and _100 written and no
\* other.
C22_ThreeArtifacts ==
  \A i \in JobIds(FileQueueName) :
    LET job == fileQueue[i]
    IN (NamesBoth(job) /\ MatchingFiles(job) # {} /\ job.dones >= 1
        /\ job.state # "active") =>
         /\ job.state = "completed"
         /\ \E f \in MatchingFiles(job) : job.artifacts = ArtifactsOf(f)

\* C23: every attempt at a thumbnail job of a stored file starts the three
\* resizes, whatever earlier attempts wrote, and the job is completed exactly
\* when the three artifacts of its last attempt are written.
C23_AllOrNothing ==
  \A i \in JobIds(FileQueueName) :
    LET job == fileQueue[i]
    IN (NamesBoth(job) /\ MatchingFiles(job) # {}) =>
         /\ job.resizes \in {Cardinality(Sizes) * job.dones,
                              Cardinality(Sizes) * job.deliveries}
         /\ job.state = "completed" =>
              \E f \in MatchingFiles(job) : ArtifactsOf(f) \subseteq job.artifacts
         /\ job.state = "failed" => job.failedReason # ""

====
